---- MODULE Spec2Model ----
(***************************************************************************)
(* Philippine Law MCP: the ingestion pipeline of scripts/.                 *)
(*                                                                         *)
(*   scripts/lib/fetcher.ts  rateLimit, fetchWithRateLimit                 *)
(*   scripts/census.ts       parseIndexPage, main (census);                *)
(*                           createFallbackSeed, fetchAndParseActs,        *)
(*                           main (ingest)                                 *)
(*                                                                         *)
(* Five state machines share the variables below:                          *)
(*   SpecFetch   one caller making consecutive fetchWithRateLimit calls    *)
(*   SpecConc    several callers interleaved at their await points         *)
(*   SpecCensus  runs of the census program                                *)
(*   SpecIngest  runs of the ingestion program over the seed directory     *)
(*   SpecParse   calls of parsePhilippineHtml on pages of sections         *)
(***************************************************************************)
EXTENDS Integers, Sequences, FiniteSets, TLC

VARIABLES
    now,              \* Date.now(), in ms
    lastRequestTime,  \* fetcher.ts:20
    call,             \* per caller: the frame of its fetchWithRateLimit call
    firstReqs,        \* start of the first HTTP request of each call: <<call id, start>>
    lastReq,          \* the latest HTTP request issued: <<call id, attempt, start>>
    ncalls,           \* number of fetchWithRateLimit calls invoked so far
    cpc,              \* census main: position
    cresult,          \* census main: `result` of the index fetch
    censusFile,       \* data/census.json (NoFile when absent)
    cexit,            \* census process exit code (-1 while running)
    ipc,              \* ingest: position in fetchAndParseActs
    acts,             \* ingest: the work list (ids), after --limit
    skipFetch,        \* ingest: --skip-fetch
    idx,              \* ingest: index of the current act in the for loop
    seedFiles,        \* data/seed/<id>.json
    sourceFiles,      \* data/source/<id>.html
    counters,         \* processed, skipped, failed, totalProvisions, totalDefinitions
    results,          \* ingest: the per-act results array
    iexit,            \* ingest process exit code (-1 while running)
    writes,           \* ingest: seed-file writes of the current run, in order
    fetched,          \* ingest: acts handed to fetchWithRateLimit, in order
    seedsBefore,      \* ingest: data/seed as the current run found it
    runLog,           \* ingest: data/seed before the first run; --skip-fetch of each run
    plocals,          \* parser: provisions, definitions, currentChapter of the last call
    pcount,           \* parser: calls of parsePhilippineHtml made so far
    pref,             \* parser: arguments and result of the first call
    plast             \* parser: arguments and result of the latest call

fvars == <<now, lastRequestTime, call, firstReqs, lastReq, ncalls>>
cvars == <<cpc, cresult, censusFile, cexit>>
ivars == <<ipc, acts, skipFetch, idx, seedFiles, sourceFiles, counters, results,
           iexit, writes, fetched, seedsBefore, runLog>>
pvars == <<plocals, pcount, pref, plast>>
vars == <<fvars, cvars, ivars, pvars>>

(***************************************************************************)
(* Bounds of the model                                                     *)
(***************************************************************************)
MaxCalls == 2         \* fetchWithRateLimit calls per behaviour
MaxRetriesArg == 2    \* largest maxRetries argument tried
HorizonTicks == 3     \* clock ticks of Quantum taken one by one

(***************************************************************************)
(* fetcher.ts                                                              *)
(***************************************************************************)
MIN_DELAY_MS == 500
FETCH_TIMEOUT_MS == 30000

\* The clock moves in steps of Quantum; Date.now() at process start is far
\* above MIN_DELAY_MS, so the origin is any instant >= MIN_DELAY_MS.
Quantum == MIN_DELAY_MS \div 2
Epoch == MIN_DELAY_MS
Horizon == Epoch + HorizonTicks * Quantum

Procs == {1, 2}
Statuses == {200, 404, 429, 503}
\* fetch() rejections: connection refused, DNS failure; the abort of the
\* 30 s timer; a rejection of response.text() (also inside the try block)
NetErrors == {"ECONNREFUSED", "ENOTFOUND"}
AbortError == "AbortError"
BodyError == "terminated"
ExhaustedError == "Failed to fetch"

NoResult == [kind |-> "none", status |-> 0, err |-> ""]

\* The frame of one fetchWithRateLimit call. maxRetries, attempt and the
\* timers are the code's; result is what the call returned or threw; nreq,
\* last, only503, onlyErrors and delays observe the attempts made so far.
IdleCall == [pc |-> "idle", id |-> 0, maxRetries |-> 0, attempt |-> 0,
             wakeAt |-> 0, reqStart |-> 0, result |-> NoResult,
             nreq |-> 0, last |-> NoResult, only503 |-> TRUE,
             onlyErrors |-> TRUE, delays |-> <<>>]

Observe(c, o) ==
    [c EXCEPT !.last = o,
              !.only503 = @ /\ o.kind = "response" /\ o.status = 503,
              !.onlyErrors = @ /\ o.kind = "error"]

\* fetcher.ts:23-27: how long rateLimit suspends (0: no await)
RateLimitNoWait(t, last) == 0
RateLimitDelay(t, last) ==
    LET elapsed == t - last
    IN  IF elapsed < MIN_DELAY_MS THEN MIN_DELAY_MS - elapsed ELSE 0

\* fetcher.ts:66
IsTransientAny4xx(status) == status >= 400
IsTransient(status) == status = 429 \/ status >= 500

\* fetcher.ts:67
RetryOnStatusOffByOne(attempt, maxRetries) == attempt + 1 < maxRetries
RetryOnStatusPastBound(attempt, maxRetries) == attempt <= maxRetries
RetryOnStatus(attempt, maxRetries) == attempt < maxRetries

\* fetcher.ts:83
RetryOnErrorNever(attempt, maxRetries) == FALSE
RetryOnError(attempt, maxRetries) == attempt < maxRetries

\* fetcher.ts:68, 84: Math.pow(2, attempt + 1) * 1000
backoffConstant(attempt) == 2000
backoff(attempt) == (2 ^ (attempt + 1)) * 1000

\* fetcher.ts:49-54: the loop test, then fetch() of this attempt is issued
IssueRequest(c, t) ==
    IF c.attempt <= c.maxRetries
    THEN [c EXCEPT !.pc = "fetch", !.reqStart = t, !.nreq = @ + 1]
    ELSE [c EXCEPT !.pc = "thrown",
                   !.result = [kind |-> "error", status |-> 0,
                               err |-> ExhaustedError]]

\* fetcher.ts:82-91: the catch block
Caught(c, e, t) ==
    LET c1 == Observe(c, [kind |-> "error", status |-> 0, err |-> e])
    IN  IF RetryOnError(c.attempt, c.maxRetries)
        THEN [c1 EXCEPT !.pc = "backoff",
                        !.wakeAt = t + backoff(c.attempt),
                        !.delays = Append(@, backoff(c.attempt))]
        ELSE [c1 EXCEPT !.pc = "thrown",
                        !.result = [kind |-> "error", status |-> 0, err |-> e]]

\* fetcher.ts:64-81: a response arrived; bodyOk: response.text() resolves
Responded(c, status, bodyOk, t) ==
    LET c1 == Observe(c, [kind |-> "response", status |-> status, err |-> ""])
    IN  IF IsTransient(status) /\ RetryOnStatus(c.attempt, c.maxRetries)
        THEN [c1 EXCEPT !.pc = "backoff",
                        !.wakeAt = t + backoff(c.attempt),
                        !.delays = Append(@, backoff(c.attempt))]
        ELSE IF bodyOk
        THEN [c1 EXCEPT !.pc = "returned",
                        !.result = [kind |-> "result", status |-> status,
                                    err |-> ""]]
        ELSE Caught(c, BodyError, t)

NoRequest == <<0, 0, 0>>

\* the observation of the requests put on the wire
LogRequest(c, t) ==
    /\ lastReq' = IF c.pc = "fetch" THEN <<c.id, c.attempt, t>> ELSE lastReq
    /\ firstReqs' = IF c.pc = "fetch" /\ c.attempt = 0
                    THEN Append(firstReqs, <<c.id, t>>)
                    ELSE firstReqs

\* the instant at which a timer of caller p fires (0: none pending)
Deadline(p) ==
    CASE call[p].pc \in {"rateLimit", "backoff"} -> call[p].wakeAt
      [] call[p].pc = "fetch" -> call[p].reqStart + FETCH_TIMEOUT_MS
      [] OTHER -> 0

NoTimerDue == \A p \in Procs : Deadline(p) = 0 \/ Deadline(p) > now

\* fetcher.ts:43-47: the call is entered and rateLimit() runs to its first
\* await; with no await the first request is issued in the same turn
Invoke(p, mr, cap) ==
    /\ call[p].pc \in {"idle", "returned", "thrown"}
    /\ ncalls < cap
    /\ ncalls' = ncalls + 1
    /\ LET c0 == [IdleCall EXCEPT !.id = ncalls + 1, !.maxRetries = mr]
           d == RateLimitDelay(now, lastRequestTime)
           c1 == IF d > 0
                 THEN [c0 EXCEPT !.pc = "rateLimit", !.wakeAt = now + d]
                 ELSE IssueRequest(c0, now)
       IN  /\ call' = [call EXCEPT ![p] = c1]
           /\ lastRequestTime' = IF d > 0 THEN lastRequestTime ELSE now
           /\ LogRequest(c1, now)
    /\ UNCHANGED <<now, cvars, ivars, pvars>>

\* fetcher.ts:26-28, 47-54: the pacing timer fires
RateLimitWake(p) ==
    /\ call[p].pc = "rateLimit"
    /\ now >= call[p].wakeAt
    /\ lastRequestTime' = now
    /\ LET c1 == IssueRequest(call[p], now)
       IN  /\ call' = [call EXCEPT ![p] = c1]
           /\ LogRequest(c1, now)
    /\ UNCHANGED <<now, ncalls, cvars, ivars, pvars>>

\* fetcher.ts:54-81: fetch() resolves before the abort timer fires
Response(p, status, bodyOk) ==
    /\ call[p].pc = "fetch"
    /\ now < call[p].reqStart + FETCH_TIMEOUT_MS
    /\ call' = [call EXCEPT ![p] = Responded(call[p], status, bodyOk, now)]
    /\ UNCHANGED <<now, lastRequestTime, firstReqs, lastReq, ncalls, cvars, ivars, pvars>>

\* fetcher.ts:54, 82-91: fetch() rejects
NetworkError(p, e) ==
    /\ call[p].pc = "fetch"
    /\ now < call[p].reqStart + FETCH_TIMEOUT_MS
    /\ call' = [call EXCEPT ![p] = Caught(call[p], e, now)]
    /\ UNCHANGED <<now, lastRequestTime, firstReqs, lastReq, ncalls, cvars, ivars, pvars>>

\* fetcher.ts:52: the 30 s timer aborts the request
Abort(p) ==
    /\ call[p].pc = "fetch"
    /\ now >= call[p].reqStart + FETCH_TIMEOUT_MS
    /\ call' = [call EXCEPT ![p] = Caught(call[p], AbortError, now)]
    /\ UNCHANGED <<now, lastRequestTime, firstReqs, lastReq, ncalls, cvars, ivars, pvars>>

\* fetcher.ts:70-71, 87-88, 49: the backoff timer fires, attempt++
BackoffWake(p) ==
    /\ call[p].pc = "backoff"
    /\ now >= call[p].wakeAt
    /\ LET c1 == IssueRequest([call[p] EXCEPT !.attempt = @ + 1], now)
       IN  /\ call' = [call EXCEPT ![p] = c1]
           /\ LogRequest(c1, now)
    /\ UNCHANGED <<now, lastRequestTime, ncalls, cvars, ivars, pvars>>

\* time passes; a due timer fires before the clock moves on. The clock is
\* stepped one Quantum at a time up to Horizon; later only Jump moves it.
Tick ==
    /\ now < Horizon
    /\ NoTimerDue
    /\ now' = now + Quantum
    /\ UNCHANGED <<lastRequestTime, call, firstReqs, lastReq, ncalls, cvars, ivars, pvars>>

\* time passes up to the next pending timer
Jump ==
    /\ NoTimerDue
    /\ \E p \in Procs :
          /\ Deadline(p) > now
          /\ \A q \in Procs : Deadline(q) > now => Deadline(p) <= Deadline(q)
          /\ now' = Deadline(p)
    /\ UNCHANGED <<lastRequestTime, call, firstReqs, lastReq, ncalls, cvars, ivars, pvars>>

(***************************************************************************)
(* census.ts: the census program (lines 1-268)                             *)
(***************************************************************************)
MaxRows == 3          \* rows of the index page

\* The rows rowRe (census.ts:140) matches on the index page, in page order:
\* href = ra<dir>/ra_<num>_<year>.html (match[1..3]), raText = match[4],
\* dateStr = match[5], title = match[6]. Rows 1 and 2 carry the same
\* designation number with different year, date, title and link.
IndexRows ==
    { [href |-> <<2024, 7, 2024>>, raText |-> 7,
       dateStr |-> <<"October", 17, 2024>>, title |-> "An Act A"],
      [href |-> <<2023, 7, 2023>>, raText |-> 7,
       dateStr |-> <<"june", 5, 2023>>, title |-> "An Act B"],
      [href |-> <<1946, 1, 1946>>, raText |-> 1,
       dateStr |-> <<"Sept", 30, 1946>>, title |-> "An Act C"],
      [href |-> <<2012, 10173, 2012>>, raText |-> 10173,
       dateStr |-> <<"undated">>, title |-> "Data Privacy Act of 2012"] }

RECURSIVE SeqsUpTo(_, _)
SeqsUpTo(S, n) ==
    IF n = 0 THEN {<<>>}
    ELSE LET shorter == SeqsUpTo(S, n - 1)
         IN  shorter \cup {Append(q, x) : q \in {r \in shorter : Len(r) = n - 1},
                                          x \in S}

IndexPages == SeqsUpTo(IndexRows, MaxRows)

\* census.ts:77-79
raToId(raNumber) == "ra-" \o ToString(raNumber)

\* census.ts:84-91: months[month.toLowerCase()] ?? '01'
parseMonth(month) ==
    CASE month \in {"January", "january"} -> "01"
      [] month \in {"June", "june"} -> "06"
      [] month \in {"September", "september"} -> "09"
      [] month \in {"October", "october"} -> "10"
      [] OTHER -> "01"

\* day.padStart(2, '0')
PadStart2(n) == IF n < 10 THEN "0" \o ToString(n) ELSE ToString(n)

\* census.ts:96-101: "<Month> <d>, <yyyy>" -> "yyyy-mm-dd", else ''
parseDate(dateStr) ==
    IF Len(dateStr) # 3 THEN ""
    ELSE ToString(dateStr[3]) \o "-" \o parseMonth(dateStr[1]) \o "-"
            \o PadStart2(dateStr[2])

\* census.ts:156
IndexUrl(href) ==
    "https://lawphil.net/statutes/repacts/ra" \o ToString(href[1]) \o "/ra_"
        \o ToString(href[2]) \o "_" \o ToString(href[3]) \o ".html"

\* census.ts:159-168
IndexLaw(row) ==
    [id |-> raToId(row.raText), raNumber |-> row.raText, year |-> row.href[3],
     title |-> row.title, date |-> parseDate(row.dateStr),
     url |-> IndexUrl(row.href), category |-> "republic_act",
     classification |-> "ingestable"]

\* census.ts:153-154: a row whose id was seen is skipped
KeepRowAlways(seen, id) == TRUE
KeepRow(seen, id) == id \notin seen

\* census.ts:134-172
RECURSIVE parseRows(_, _, _)
parseRows(rows, laws, seen) ==
    IF rows = <<>> THEN laws
    ELSE LET id == raToId(Head(rows).raText)
         IN  IF KeepRow(seen, id)
             THEN parseRows(Tail(rows), Append(laws, IndexLaw(Head(rows))),
                            seen \cup {id})
             ELSE parseRows(Tail(rows), laws, seen)

parseIndexPage(html) == parseRows(html, <<>>, {})

\* census.ts:196-217
Constitution1987 ==
    [id |-> "constitution-1987", raNumber |-> 0, year |-> 1987,
     title |-> "1987 Constitution of the Republic of the Philippines",
     date |-> "1987-02-02", url |-> "https://lawphil.net/consti/cons1987.html",
     category |-> "constitution", classification |-> "ingestable"]

RevisedPenalCode ==
    [id |-> "act-3815-revised-penal-code", raNumber |-> 0, year |-> 1930,
     title |-> "Revised Penal Code (Act No. 3815)",
     date |-> "1930-12-08",
     url |-> "https://lawphil.net/statutes/acts/act1930/act_3815_1930.html",
     category |-> "act", classification |-> "ingestable"]

\* census.ts:220-224: the comparator of laws.sort
CompareLawsAscending(a, b) ==
    IF a.category # "republic_act" /\ b.category = "republic_act" THEN 1
    ELSE IF a.category = "republic_act" /\ b.category # "republic_act" THEN -1
    ELSE a.raNumber - b.raNumber
CompareLaws(a, b) ==
    IF a.category # "republic_act" /\ b.category = "republic_act" THEN 1
    ELSE IF a.category = "republic_act" /\ b.category # "republic_act" THEN -1
    ELSE b.raNumber - a.raNumber

\* Array.prototype.sort is stable: x goes after every element not greater
RECURSIVE InsertLaw(_, _)
InsertLaw(sorted, x) ==
    IF sorted = <<>> THEN <<x>>
    ELSE IF CompareLaws(x, Head(sorted)) < 0 THEN <<x>> \o sorted
    ELSE <<Head(sorted)>> \o InsertLaw(Tail(sorted), x)

RECURSIVE SortLaws(_, _)
SortLaws(laws, sorted) ==
    IF laws = <<>> THEN sorted
    ELSE SortLaws(Tail(laws), InsertLaw(sorted, Head(laws)))

\* census.ts:227-228
IsRepublicAct(l) == l.category = "republic_act"
IsSpecial(l) == l.category # "republic_act"
raCount(laws) == Cardinality({i \in 1..Len(laws) : IsRepublicAct(laws[i])})
specialCount(laws) == Cardinality({i \in 1..Len(laws) : IsSpecial(laws[i])})

\* census.ts:192-247: the manifest built from the index page
CensusOutput(html) ==
    LET laws == SortLaws(parseIndexPage(html)
                            \o <<Constitution1987, RevisedPenalCode>>, <<>>)
    IN  [exists |-> TRUE,
         stats |-> [total |-> Len(laws),
                    republic_acts |-> raCount(laws),
                    special_entries |-> specialCount(laws)],
         laws |-> laws]

NoFile == [exists |-> FALSE]
NoIndexResult == [kind |-> "none", status |-> 0, err |-> "", body |-> <<>>]

\* census.ts:185: only status 200 goes on
IndexFetchedAnyStatus(status) == TRUE
IndexFetched(status) == status = 200

\* census.ts:174-183: main starts and awaits the index fetch
CensusFetch ==
    /\ cpc = "start"
    /\ cpc' = "fetching"
    /\ UNCHANGED <<cresult, censusFile, cexit, fvars, ivars, pvars>>

\* census.ts:183-263: the fetch returns; a status other than 200 is fatal,
\* otherwise the manifest is built and written
CensusFetchReturns(status, body) ==
    /\ cpc = "fetching"
    /\ cresult' = [kind |-> "result", status |-> status, err |-> "",
                   body |-> body]
    /\ cpc' = "exited"
    /\ IF IndexFetched(status)
       THEN censusFile' = CensusOutput(body) /\ cexit' = 0
       ELSE censusFile' = censusFile /\ cexit' = 1
    /\ UNCHANGED <<fvars, ivars, pvars>>

\* census.ts:183, 265-268: the fetch throws; main().catch exits with 1
CensusFetchThrows(e) ==
    /\ cpc = "fetching"
    /\ cresult' = [kind |-> "error", status |-> 0, err |-> e, body |-> <<>>]
    /\ cpc' = "exited"
    /\ cexit' = 1
    /\ UNCHANGED <<censusFile, fvars, ivars, pvars>>

(***************************************************************************)
(* fetcher.ts:97-503: the parser and the list of key acts                  *)
(***************************************************************************)
MaxRuns == 2          \* runs of the ingestion program per behaviour
FreeActs == 2         \* leading acts whose files may pre-exist and whose fetch or parse may fail

\* fetcher.ts:382-503; titleEn repeats title and status is in_force
\* in every entry
KeyAct(id, title, shortName, issuedDate, inForceDate, url) ==
    [id |-> id, title |-> title, titleEn |-> title, shortName |-> shortName,
     status |-> "in_force", issuedDate |-> issuedDate,
     inForceDate |-> inForceDate, url |-> "https://lawphil.net/" \o url,
     description |-> "About the " \o title]

KEY_PHILIPPINE_ACTS ==
    << KeyAct("ra-10173-data-privacy-act", "Data Privacy Act of 2012",
              "RA 10173", "2012-08-15", "2012-09-08",
              "statutes/repacts/ra2012/ra_10173_2012.html"),
       KeyAct("ra-10175-cybercrime-prevention", "Cybercrime Prevention Act of 2012",
              "RA 10175", "2012-09-12", "2012-10-03",
              "statutes/repacts/ra2012/ra_10175_2012.html"),
       KeyAct("ra-11934-sim-registration", "SIM Registration Act",
              "RA 11934", "2022-10-10", "2022-12-27",
              "statutes/repacts/ra2022/ra_11934_2022.html"),
       KeyAct("ra-8792-e-commerce", "Electronic Commerce Act of 2000",
              "RA 8792", "2000-06-14", "2000-06-14",
              "statutes/repacts/ra2000/ra_8792_2000.html"),
       KeyAct("ra-11232-revised-corporation-code",
              "Revised Corporation Code of the Philippines",
              "RA 11232", "2019-02-20", "2019-02-23",
              "statutes/repacts/ra2019/ra_11232_2019.html"),
       KeyAct("ra-7394-consumer-act", "Consumer Act of the Philippines",
              "RA 7394", "1992-04-13", "1992-04-13",
              "statutes/repacts/ra1992/ra_7394_1992.html"),
       KeyAct("constitution-1987",
              "1987 Constitution of the Republic of the Philippines",
              "1987 Constitution", "1987-02-02", "1987-02-02",
              "consti/cons1987.html"),
       KeyAct("act-3815-revised-penal-code", "Revised Penal Code",
              "Act No. 3815", "1930-12-08", "1932-01-01",
              "statutes/acts/act1930/act_3815_1930.html"),
       KeyAct("ra-8484-access-devices-regulation",
              "Access Devices Regulation Act of 1998",
              "RA 8484", "1998-02-11", "1998-02-11",
              "statutes/repacts/ra1998/ra_8484_1998.html"),
       KeyAct("ra-9995-anti-voyeurism",
              "Anti-Photo and Video Voyeurism Act of 2009",
              "RA 9995", "2010-02-15", "2010-02-15",
              "statutes/repacts/ra2010/ra_9995_2010.html") >>

Min(a, b) == IF a < b THEN a ELSE b

\* A page is what the two scans of parsePhilippineHtml find in it:
\* sections (fetcher.ts:207-222), in page order, each with the offset of its
\* marker, its number, and the title, stripped length and definition matches
\* (fetcher.ts:356) of its text; chapters (fetcher.ts:226-240) with offset
\* and label.
PageNoMarkers == [sections |-> <<>>, chapters |-> <<>>]

PageFull ==
    [sections |->
        << [index |-> 40, sectionNum |-> "1", title |-> "Short Title",
            contentLen |-> 60, defs |-> <<>>],
           [index |-> 120, sectionNum |-> "3", title |-> "Definition of Terms",
            contentLen |-> 200,
            defs |-> << [term |-> "Personal information", termLen |-> 20,
                         definitionLen |-> 40] >>] >>,
     chapters |-> << [index |-> 10, name |-> "CHAPTER I - GENERAL PROVISIONS"] >>]

HtmlPages == {PageNoMarkers, PageFull}

\* String.prototype.toLowerCase on the strings of the model
ToLowerCase(str) ==
    CASE str = "Personal information" -> "personal information"
      [] str = "Short Title" -> "short title"
      [] str = "Definition of Terms" -> "definition of terms"
      [] str = "Definitions" -> "definitions"
      [] str = "Scope" -> "scope"
      [] str = "PERSONAL INFORMATION" -> "personal information"
      [] str = "Data subject" -> "data subject"
      [] str = "3A" -> "3a"
      [] OTHER -> str

\* fetcher.ts:294-298
IsDefinitionTitle(title) ==
    ToLowerCase(title) \in {"definition of terms", "definitions",
                            "interpretation", "general terms"}

\* fetcher.ts:248-252
UpdateChapterLastHeading(chapters, index, currentChapter) ==
    IF chapters = <<>> THEN currentChapter
    ELSE chapters[Len(chapters)].name
RECURSIVE UpdateChapter(_, _, _)
UpdateChapter(chapters, index, currentChapter) ==
    IF chapters = <<>> THEN currentChapter
    ELSE UpdateChapter(Tail(chapters), index,
                       IF Head(chapters).index <= index
                       THEN Head(chapters).name ELSE currentChapter)

\* fetcher.ts:359-369
RECURSIVE extractDefinitions(_, _, _)
extractDefinitions(matches, sourceProvision, definitions) ==
    IF matches = <<>> THEN definitions
    ELSE LET m == Head(matches)
         IN  extractDefinitions(Tail(matches), sourceProvision,
                IF m.termLen > 0 /\ m.termLen < 100 /\ m.definitionLen > 5
                THEN Append(definitions,
                            [term |-> m.term,
                             definitionLen |-> Min(m.definitionLen, 4000),
                             source_provision |-> sourceProvision])
                ELSE definitions)

\* fetcher.ts:282: the test on the stripped text of a section
ContentKeptOver100(contentLen) == contentLen > 100
ContentKept(contentLen) == contentLen > 10

\* fetcher.ts:243-301: the loop over sectionStarts; acc holds provisions,
\* definitions and currentChapter
RECURSIVE ScanSections(_, _, _)
ScanSections(sections, chapters, acc) ==
    IF sections = <<>> THEN acc
    ELSE LET start == Head(sections)
             chapter == UpdateChapter(chapters, start.index, acc.currentChapter)
             provisionRef == "sec" \o ToLowerCase(start.sectionNum)
             provs == IF ContentKept(start.contentLen)
                      THEN Append(acc.provisions,
                                  [provision_ref |-> provisionRef,
                                   chapter |-> chapter,
                                   section |-> start.sectionNum,
                                   title |-> start.title,
                                   contentLen |-> Min(start.contentLen, 12000)])
                      ELSE acc.provisions
             defs == IF IsDefinitionTitle(start.title)
                     THEN extractDefinitions(start.defs, provisionRef,
                                             acc.definitions)
                     ELSE acc.definitions
         IN  ScanSections(Tail(sections), chapters,
                          [provisions |-> provs, definitions |-> defs,
                           currentChapter |-> chapter])

\* fetcher.ts:304-310: Map keyed by provision_ref; a longer content replaces
\* the value in place
DedupProvisionsNone(provisions, byRef) == provisions
RECURSIVE DedupProvisions(_, _)
DedupProvisions(provisions, byRef) ==
    IF provisions = <<>> THEN byRef
    ELSE LET prov == Head(provisions)
             at == {i \in 1..Len(byRef) : byRef[i].provision_ref = prov.provision_ref}
         IN  DedupProvisions(Tail(provisions),
                IF at = {} THEN Append(byRef, prov)
                ELSE LET i == CHOOSE k \in at : TRUE
                     IN  IF prov.contentLen > byRef[i].contentLen
                         THEN [byRef EXCEPT ![i] = prov] ELSE byRef)

\* fetcher.ts:313-319
DedupDefinitionsKeepFirst(definitions, byTerm) ==
    IF definitions = <<>> THEN byTerm
    ELSE LET firsts == {i \in 1..Len(definitions) :
                            \A j \in 1..(i - 1) :
                                ToLowerCase(definitions[j].term) #
                                    ToLowerCase(definitions[i].term)}
             pick[n \in 0..Len(definitions)] ==
                IF n = 0 THEN <<>>
                ELSE IF n \in firsts THEN Append(pick[n - 1], definitions[n])
                ELSE pick[n - 1]
         IN  pick[Len(definitions)]
RECURSIVE DedupDefinitions(_, _)
DedupDefinitions(definitions, byTerm) ==
    IF definitions = <<>> THEN byTerm
    ELSE LET def == Head(definitions)
             at == {i \in 1..Len(byTerm) :
                        ToLowerCase(byTerm[i].term) = ToLowerCase(def.term)}
         IN  DedupDefinitions(Tail(definitions),
                IF at = {} THEN Append(byTerm, def)
                ELSE LET i == CHOOSE k \in at : TRUE
                     IN  IF def.definitionLen > byTerm[i].definitionLen
                         THEN [byTerm EXCEPT ![i] = def] ELSE byTerm)

\* fetcher.ts:321-334 and census.ts:329-344: the record of an act
ActRecord(act, provisions, definitions) ==
    [id |-> act.id, type |-> "statute", title |-> act.title,
     title_en |-> act.titleEn, short_name |-> act.shortName,
     status |-> act.status, issued_date |-> act.issuedDate,
     in_force_date |-> act.inForceDate, url |-> act.url,
     description |-> act.description,
     provisions |-> provisions, definitions |-> definitions]

\* fetcher.ts:193-201: provisions, definitions and currentChapter are locals
\* of the call, created empty whatever an earlier call (prev) left behind
NewLocalsKept(prev) == prev
NewLocals(prev) ==
    [provisions |-> <<>>, definitions |-> <<>>, currentChapter |-> ""]

\* the locals at the end of the loop over sectionStarts
ScannedLocals(html) ==
    ScanSections(html.sections, html.chapters, NewLocals(plocals))

\* fetcher.ts:192-335
parsePhilippineHtml(html, act) ==
    LET scanned == ScannedLocals(html)
    IN  ActRecord(act, DedupProvisions(scanned.provisions, <<>>),
                  DedupDefinitions(scanned.definitions, <<>>))

NoParse == [html |-> PageNoMarkers, act |-> "", out |-> <<>>]
NoLocals == [provisions |-> <<>>, definitions |-> <<>>, currentChapter |-> ""]
ParserOff ==
    plocals = NoLocals /\ pcount = 0 /\ pref = NoParse /\ plast = NoParse

(***************************************************************************)
(* census.ts:270-527: the ingestion program                                *)
(***************************************************************************)
\* census.ts:329-344
createFallbackSeedSwapped(act) ==
    [ActRecord(act, <<>>, <<>>) EXCEPT !.in_force_date = act.issuedDate]
createFallbackSeed(act) == ActRecord(act, <<>>, <<>>)

ActIds == {KEY_PHILIPPINE_ACTS[i].id : i \in 1..Len(KEY_PHILIPPINE_ACTS)}
SeedOf(rec) == [exists |-> TRUE, act |-> rec]
SourceOf(html) == [exists |-> TRUE, html |-> html]

NoRuns == [first |-> <<>>, modes |-> <<>>]

ZeroCounters == [processed |-> 0, skipped |-> 0, failed |-> 0,
                 totalProvisions |-> 0, totalDefinitions |-> 0]

\* census.ts:518-520: limit ? KEY_PHILIPPINE_ACTS.slice(0, limit) : all
\* (limit 0: no --limit, or --limit 0)
WorkList(limit) ==
    IF limit # 0
    THEN SubSeq(KEY_PHILIPPINE_ACTS, 1, Min(limit, Len(KEY_PHILIPPINE_ACTS)))
    ELSE KEY_PHILIPPINE_ACTS

\* census.ts:505-521, 346-365: arguments parsed, the loop is entered
IngestMain(limit, skip) ==
    /\ ipc = "start"
    /\ acts' = WorkList(limit)
    /\ skipFetch' = skip
    /\ idx' = 1
    /\ counters' = ZeroCounters
    /\ results' = <<>>
    /\ writes' = <<>>
    /\ fetched' = <<>>
    /\ seedsBefore' = seedFiles
    /\ runLog' = [first |-> IF runLog.modes = <<>> THEN seedFiles
                            ELSE runLog.first,
                  modes |-> Append(runLog.modes, skip)]
    /\ ipc' = "loop"
    /\ UNCHANGED <<seedFiles, sourceFiles, iexit, fvars, cvars, pvars>>

CurrentAct == acts[idx]

\* census.ts:408-419, 432-443, 464-474: fallback seed written, result
\* pushed, failed++ and processed++
WriteFallbackNotProcessed(act, status) ==
    /\ seedFiles' = [seedFiles EXCEPT ![act.id] = SeedOf(createFallbackSeed(act))]
    /\ writes' = Append(writes, act.id)
    /\ results' = Append(results, [act |-> act.shortName, provisions |-> 0,
                                   definitions |-> 0, status |-> status])
    /\ counters' = [counters EXCEPT !.failed = @ + 1]
WriteFallbackKeepsPopulated(act, status) ==
    /\ seedFiles' = IF seedFiles[act.id].exists
                        /\ seedFiles[act.id].act.provisions # <<>>
                    THEN seedFiles
                    ELSE [seedFiles EXCEPT ![act.id] =
                                SeedOf(createFallbackSeed(act))]
    /\ writes' = Append(writes, act.id)
    /\ results' = Append(results, [act |-> act.shortName, provisions |-> 0,
                                   definitions |-> 0, status |-> status])
    /\ counters' = [counters EXCEPT !.failed = @ + 1, !.processed = @ + 1]
WriteFallback(act, status) ==
    /\ seedFiles' = [seedFiles EXCEPT ![act.id] = SeedOf(createFallbackSeed(act))]
    /\ writes' = Append(writes, act.id)
    /\ results' = Append(results, [act |-> act.shortName, provisions |-> 0,
                                   definitions |-> 0, status |-> status])
    /\ counters' = [counters EXCEPT !.failed = @ + 1, !.processed = @ + 1]

\* census.ts:447-459, 477
WriteParsedProvisionsOnly(act, html) ==
    LET parsed == parsePhilippineHtml(html, act)
    IN  /\ seedFiles' = [seedFiles EXCEPT ![act.id] =
                            SeedOf(ActRecord(act, parsed.provisions, <<>>))]
        /\ writes' = Append(writes, act.id)
        /\ results' = Append(results,
                             [act |-> act.shortName,
                              provisions |-> Len(parsed.provisions),
                              definitions |-> Len(parsed.definitions),
                              status |-> "OK"])
        /\ counters' = [counters EXCEPT
                            !.totalProvisions = @ + Len(parsed.provisions),
                            !.totalDefinitions = @ + Len(parsed.definitions),
                            !.processed = @ + 1]
WriteParsed(act, html) ==
    LET parsed == parsePhilippineHtml(html, act)
    IN  /\ seedFiles' = [seedFiles EXCEPT ![act.id] = SeedOf(parsed)]
        /\ writes' = Append(writes, act.id)
        /\ results' = Append(results,
                             [act |-> act.shortName,
                              provisions |-> Len(parsed.provisions),
                              definitions |-> Len(parsed.definitions),
                              status |-> "OK"])
        /\ counters' = [counters EXCEPT
                            !.totalProvisions = @ + Len(parsed.provisions),
                            !.totalDefinitions = @ + Len(parsed.definitions),
                            !.processed = @ + 1]

\* census.ts:460-475: the message of the exception caught by the outer try
ErrorStatus(msg) == "ERROR (fallback): " \o msg

\* census.ts:367: the for loop moves to the next act
AfterAct ==
    /\ idx' = idx + 1
    /\ ipc' = "loop"

\* census.ts:372: skipFetch && fs.existsSync(seedFile)
ReuseSeedAlways(skip, seedExists) == seedExists
ReuseSeedNever(skip, seedExists) == FALSE
ReuseSeed(skip, seedExists) == skip /\ seedExists

\* census.ts:394: fs.existsSync(sourceFile) && skipFetch
ReuseSourceNever(skip, sourceExists) == FALSE
ReuseSource(skip, sourceExists) == sourceExists /\ skip

\* census.ts:372-389: skip-fetch and the seed exists
CacheHit ==
    /\ ipc = "loop" /\ idx <= Len(acts)
    /\ ReuseSeed(skipFetch, seedFiles[CurrentAct.id].exists)
    /\ LET existing == seedFiles[CurrentAct.id].act
           provCount == Len(existing.provisions)
           defCount == Len(existing.definitions)
       IN  /\ counters' = [counters EXCEPT !.totalProvisions = @ + provCount,
                                           !.totalDefinitions = @ + defCount,
                                           !.skipped = @ + 1,
                                           !.processed = @ + 1]
           /\ results' = Append(results, [act |-> CurrentAct.shortName,
                                          provisions |-> provCount,
                                          definitions |-> defCount,
                                          status |-> "cached"])
    /\ AfterAct
    /\ UNCHANGED <<fetched, acts, skipFetch, seedFiles, sourceFiles, iexit, writes,
                   seedsBefore, runLog, fvars, cvars, pvars>>

\* fetcher.ts:192-335: the parser has no throw statement and applies only
\* String and RegExp methods to a string; no page makes it raise
ParserThrowsWithoutSections(html) == html.sections = <<>>
ParserThrows(html) == FALSE

\* census.ts:447-475: the page is parsed and the seed written; thrown is ""
\* or the message of an exception raised by writeFileSync of the seed file
ParseAndWrite(act, html, thrown) ==
    IF ParserThrows(html) THEN WriteFallback(act, ErrorStatus("parse"))
    ELSE IF thrown # "" THEN WriteFallback(act, ErrorStatus(thrown))
    ELSE WriteParsed(act, html)

\* census.ts:394-398, 447-475: skip-fetch, no seed, cached source; thrown is
\* "" or the message of an exception raised by readFileSync of the source
\* file or by writeFileSync of the seed file
ParseCached(thrown) ==
    /\ ipc = "loop" /\ idx <= Len(acts)
    /\ ~ReuseSeed(skipFetch, seedFiles[CurrentAct.id].exists)
    /\ ReuseSource(skipFetch, sourceFiles[CurrentAct.id].exists)
    /\ ParseAndWrite(CurrentAct, sourceFiles[CurrentAct.id].html, thrown)
    /\ AfterAct
    /\ UNCHANGED <<fetched, acts, skipFetch, sourceFiles, iexit, seedsBefore, runLog, fvars, cvars, pvars>>

\* census.ts:399-403: the act is fetched; the loop awaits fetchWithRateLimit
StartFetchNoAwait ==
    /\ ipc = "loop" /\ idx <= Len(acts)
    /\ ~ReuseSeed(skipFetch, seedFiles[CurrentAct.id].exists)
    /\ ~ReuseSource(skipFetch, sourceFiles[CurrentAct.id].exists)
    /\ idx' = idx + 1
    /\ fetched' = Append(fetched, CurrentAct.id)
    /\ UNCHANGED <<acts, skipFetch, ipc, seedFiles, sourceFiles, counters,
                   results, iexit, writes, seedsBefore, runLog, fvars, cvars, pvars>>
StartFetch ==
    /\ ipc = "loop" /\ idx <= Len(acts)
    /\ ~ReuseSeed(skipFetch, seedFiles[CurrentAct.id].exists)
    /\ ~ReuseSource(skipFetch, sourceFiles[CurrentAct.id].exists)
    /\ ipc' = "fetching"
    /\ fetched' = Append(fetched, CurrentAct.id)
    /\ UNCHANGED <<acts, skipFetch, idx, seedFiles, sourceFiles, counters,
                   results, iexit, writes, seedsBefore, runLog, fvars, cvars, pvars>>

\* census.ts:405: the statuses that go on to the parser
IsSuccess(status) == status = 200

\* census.ts:403-424, 447-475: the fetch returned. thrownAt is "" or where
\* an exception was raised: "source" by writeFileSync of the source file
\* (inside the inner try, so reported as a failed fetch), "seed" by
\* writeFileSync of the seed file
FetchReturns(status, body, thrownAt) ==
    /\ ipc = "fetching"
    /\ IF ~IsSuccess(status)
       THEN /\ WriteFallback(CurrentAct,
                             "HTTP " \o ToString(status) \o " (fallback)")
            /\ UNCHANGED sourceFiles
       ELSE IF thrownAt = "source"
       THEN /\ WriteFallback(CurrentAct, "FETCH FAILED (fallback)")
            /\ UNCHANGED sourceFiles
       ELSE /\ sourceFiles' = [sourceFiles EXCEPT ![CurrentAct.id] =
                                    SourceOf(body)]
            /\ ParseAndWrite(CurrentAct, body,
                             IF thrownAt = "seed" THEN "EACCES" ELSE "")
    /\ AfterAct
    /\ UNCHANGED <<fetched, acts, skipFetch, iexit, seedsBefore, runLog, fvars, cvars, pvars>>

\* census.ts:425-444: fetchWithRateLimit threw
FetchThrowsUncaught(e) ==
    /\ ipc = "fetching"
    /\ ipc' = "done"
    /\ iexit' = 1
    /\ UNCHANGED <<fetched, acts, skipFetch, idx, seedFiles, sourceFiles, counters,
                   results, writes, seedsBefore, runLog, fvars, cvars, pvars>>
FetchThrows(e) ==
    /\ ipc = "fetching"
    /\ WriteFallback(CurrentAct, "FETCH FAILED (fallback)")
    /\ UNCHANGED sourceFiles
    /\ AfterAct
    /\ UNCHANGED <<fetched, acts, skipFetch, iexit, seedsBefore, runLog, fvars, cvars, pvars>>

\* census.ts:478-503, 521: the loop is over, the report is printed and the
\* process ends
IngestEnd ==
    /\ ipc = "loop" /\ idx > Len(acts)
    /\ ipc' = "done"
    /\ iexit' = 0
    /\ UNCHANGED <<fetched, acts, skipFetch, idx, seedFiles, sourceFiles, counters,
                   results, writes, seedsBefore, runLog, fvars, cvars, pvars>>

\* census.ts:505-522: the program is started again; data/seed and
\* data/source are as the run before left them
Rerun ==
    /\ ipc = "done"
    /\ Len(runLog.modes) < MaxRuns
    /\ ipc' = "start"
    /\ acts' = <<>> /\ skipFetch' = FALSE /\ idx' = 0
    /\ counters' = ZeroCounters /\ results' = <<>> /\ writes' = <<>>
    /\ fetched' = <<>> /\ seedsBefore' = <<>>
    /\ iexit' = -1
    /\ UNCHANGED <<seedFiles, sourceFiles, runLog, fvars, cvars, pvars>>

(***************************************************************************)
(* Specifications of the fetcher                                           *)
(***************************************************************************)
CensusOff ==
    /\ cpc = "off" /\ cresult = NoIndexResult /\ censusFile = NoFile
    /\ cexit = -1

IngestOff ==
    /\ ipc = "off" /\ acts = <<>> /\ skipFetch = FALSE /\ idx = 0
    /\ seedFiles = <<>> /\ sourceFiles = <<>>
    /\ counters = <<>> /\ results = <<>> /\ iexit = -1
    /\ writes = <<>> /\ fetched = <<>> /\ seedsBefore = <<>>
    /\ runLog = NoRuns

InitFetch ==
    /\ ParserOff
    /\ now = Epoch
    /\ lastRequestTime = 0
    /\ call = [p \in Procs |-> IdleCall]
    /\ firstReqs = <<>>
    /\ lastReq = NoRequest
    /\ ncalls = 0
    /\ CensusOff
    /\ IngestOff

\* one caller: the orchestrators await each call before making the next
NextFetch ==
    \/ \E mr \in 0..MaxRetriesArg : Invoke(1, mr, MaxCalls)
    \/ RateLimitWake(1)
    \/ \E s \in Statuses, b \in BOOLEAN : Response(1, s, b)
    \/ \E e \in NetErrors : NetworkError(1, e)
    \/ Abort(1)
    \/ BackoffWake(1)
    \/ Tick
    \/ Jump

SpecFetch == InitFetch /\ [][NextFetch]_vars

\* callers whose calls overlap (Promise.all over fetchWithRateLimit)
NextConc ==
    \/ \E p \in Procs, mr \in 0..1 : Invoke(p, mr, MaxCalls + 1)
    \/ \E p \in Procs : RateLimitWake(p)
    \/ \E p \in Procs, s \in {200, 503}, b \in BOOLEAN : Response(p, s, b)
    \/ \E p \in Procs, e \in NetErrors : NetworkError(p, e)
    \/ \E p \in Procs : Abort(p)
    \/ \E p \in Procs : BackoffWake(p)
    \/ Tick
    \/ Jump

SpecConc == InitFetch /\ [][NextConc]_vars

(***************************************************************************)
(* Claims about the fetcher                                                *)
(***************************************************************************)
Finished(c) == c.pc \in {"returned", "thrown"}
Attempted(c) == c.last.kind # "none"

\* C1 (retry bound): a call whose every attempt was answered with status 503
\* never throws, never issues more than maxRetries + 1 requests, retries while
\* fewer than maxRetries + 1 were issued, and ends by returning status 503
\* after exactly maxRetries + 1 requests.
C1_RetryBound503 ==
    \A p \in Procs :
        LET c == call[p]
        IN  (Attempted(c) /\ c.only503) =>
                /\ c.pc # "thrown"
                /\ c.nreq <= c.maxRetries + 1
                /\ (c.pc = "backoff" => c.nreq <= c.maxRetries)
                /\ (c.pc = "returned" =>
                        /\ c.nreq = c.maxRetries + 1
                        /\ c.result = [kind |-> "result", status |-> 503,
                                       err |-> ""])

C1_Witness ==
    /\ call[1].pc = "returned"
    /\ call[1].only503
    /\ call[1].maxRetries = 2
    /\ call[1].nreq = 3
    /\ call[1].result.status = 503

\* C2: a call whose every attempt ended in a network-level exception never
\* returns a result; it backs off after each attempt but the last, and after
\* exactly maxRetries + 1 attempts throws the error of the last attempt.
C2_NetworkErrorsRethrown ==
    \A p \in Procs :
        LET c == call[p]
        IN  (Attempted(c) /\ c.onlyErrors) =>
                /\ c.pc # "returned"
                /\ c.nreq <= c.maxRetries + 1
                /\ (c.pc = "backoff" =>
                        c.nreq <= c.maxRetries /\ Len(c.delays) = c.nreq)
                /\ (c.pc = "thrown" =>
                        /\ c.nreq = c.maxRetries + 1
                        /\ Len(c.delays) = c.maxRetries
                        /\ \A k \in 1..Len(c.delays) : c.delays[k] > 0
                        /\ c.result = [kind |-> "error", status |-> 0,
                                       err |-> c.last.err])

C2_Witness ==
    /\ call[1].pc = "thrown"
    /\ call[1].onlyErrors
    /\ call[1].maxRetries = 2
    /\ call[1].nreq = 3
    /\ call[1].result.err = AbortError

\* C3: no HTTP status makes the call throw. A finished call whose final
\* attempt obtained a response returned that response's status; a response
\* whose status is neither 429 nor >= 500 ends the call at once; a call
\* throws only the network-level error of its last permitted attempt.
C3_StatusNeverThrown ==
    \A p \in Procs :
        LET c == call[p]
        IN  /\ (Finished(c) /\ c.last.kind = "response") =>
                    /\ c.pc = "returned"
                    /\ c.result = [kind |-> "result", status |-> c.last.status,
                                   err |-> ""]
            /\ (c.last.kind = "response" /\ c.last.status # 429
                    /\ c.last.status < 500) => c.pc = "returned"
            /\ c.pc = "thrown" =>
                    /\ c.last.kind = "error"
                    /\ c.attempt = c.maxRetries
                    /\ c.result.err = c.last.err
                    /\ c.result.err \in NetErrors \cup {AbortError, BodyError}

C3_Witness ==
    /\ call[1].pc = "returned"
    /\ call[1].maxRetries = 2
    /\ call[1].nreq = 1
    /\ call[1].result.status = 404

\* C4 (pacing): the first requests of consecutive calls of one caller start
\* at least MIN_DELAY_MS apart.
C4_Pacing ==
    \A i \in 1..(Len(firstReqs) - 1) :
        firstReqs[i + 1][2] - firstReqs[i][2] >= MIN_DELAY_MS

\* the second call had to wait in rateLimit and started exactly
\* MIN_DELAY_MS after the first
C4_Witness ==
    /\ Len(firstReqs) = 2
    /\ call[1].id = 2
    /\ call[1].pc = "fetch"
    /\ call[1].attempt = 0
    /\ call[1].wakeAt = call[1].reqStart
    /\ firstReqs[2][2] - firstReqs[1][2] = MIN_DELAY_MS

\* C16 (backoff schedule): the k-th delay waited by a call is 2^k seconds
\* whatever made the attempts fail, one delay has been waited per attempt
\* already retried (status and exception retries advance the same counter),
\* the retried request does not start before the delay is over, and a call
\* that ended waited one delay less than it issued requests: none after the
\* last attempt.
C16_BackoffSchedule ==
    \A p \in Procs :
        LET c == call[p]
        IN  /\ \A k \in 1..Len(c.delays) : c.delays[k] = (2 ^ k) * 1000
            /\ Len(c.delays) = c.attempt + (IF c.pc = "backoff" THEN 1 ELSE 0)
            /\ Len(c.delays) <= c.maxRetries
            /\ (c.pc = "fetch" /\ c.attempt >= 1) => c.reqStart >= c.wakeAt
            /\ Finished(c) => Len(c.delays) = c.nreq - 1

\* a call with maxRetries = 2 retried once after a status and once after an
\* exception, waited 2 s then 4 s, and ended at its third attempt
C16_Witness ==
    \E p \in Procs :
        /\ Finished(call[p])
        /\ call[p].maxRetries = 2
        /\ call[p].nreq = 3
        /\ call[p].delays = <<2000, 4000>>
        /\ ~call[p].only503
        /\ ~call[p].onlyErrors

\* C17: every HTTP request, first attempt or retry, starts at least
\* MIN_DELAY_MS after the start of the request before it.
C17_PacingEveryRequest ==
    [][(lastReq' # lastReq /\ lastReq # NoRequest) =>
            lastReq'[3] - lastReq[3] >= MIN_DELAY_MS]_vars

\* C26 (attempt bound under mixed failures): whatever mixture of 429 / >= 500
\* responses and network-level exceptions its attempts met, a call issues at
\* most maxRetries + 1 requests, its attempt counter never passes maxRetries
\* (the loop test never fails), and it ends either by returning a result or
\* by re-raising the network-level error of its last attempt: the error
\* thrown after the loop is never the outcome.
C26_AttemptBoundMixed ==
    \A p \in Procs :
        LET c == call[p]
        IN  /\ c.nreq <= c.maxRetries + 1
            /\ c.attempt <= c.maxRetries
            /\ c.result.err # ExhaustedError
            /\ Finished(c) =>
                \/ c.pc = "returned" /\ c.result.kind = "result"
                \/ /\ c.pc = "thrown"
                   /\ c.result.kind = "error"
                   /\ c.last.kind = "error"
                   /\ c.result.err = c.last.err
                   /\ c.result.err \in NetErrors \cup {AbortError, BodyError}

\* a call with maxRetries = 2 was answered with a retryable status at one
\* attempt, met an exception at another, and threw at its third request
C26_Witness ==
    /\ call[1].pc = "thrown"
    /\ call[1].maxRetries = 2
    /\ call[1].nreq = 3
    /\ Len(call[1].delays) = 2
    /\ ~call[1].onlyErrors
    /\ call[1].result.err \in NetErrors
FirstRequestOf(id) ==
    LET hits == {i \in 1..Len(firstReqs) : firstReqs[i][1] = id}
    IN  IF hits = {} THEN -1 ELSE firstReqs[CHOOSE i \in hits : TRUE][2]

InProgress(c) == c.pc \in {"rateLimit", "fetch", "backoff"}

\* C5: two calls that are in progress at the same time never start their
\* first requests less than MIN_DELAY_MS apart.
C5_GateSerializes ==
    \A p, q \in Procs :
        LET tp == FirstRequestOf(call[p].id)
            tq == FirstRequestOf(call[q].id)
        IN  (p # q /\ InProgress(call[p]) /\ InProgress(call[q])
                /\ tp >= 0 /\ tq >= 0 /\ tp >= tq)
                => tp - tq >= MIN_DELAY_MS

(***************************************************************************)
(* Specification of the census program                                     *)
(***************************************************************************)
FetcherOff ==
    /\ now = Epoch /\ lastRequestTime = 0
    /\ call = [p \in Procs |-> IdleCall]
    /\ firstReqs = <<>> /\ lastReq = NoRequest /\ ncalls = 0

\* data/census.json is absent or was written by an earlier run
InitCensus ==
    /\ ParserOff
    /\ cpc = "start"
    /\ cresult = NoIndexResult
    /\ censusFile \in {NoFile} \cup {CensusOutput(h) : h \in IndexPages}
    /\ cexit = -1
    /\ FetcherOff
    /\ IngestOff

\* the body of a response that is not the index is a page without rows
NextCensus ==
    \/ CensusFetch
    \/ \E h \in IndexPages : CensusFetchReturns(200, h)
    \/ \E s \in Statuses \ {200} : CensusFetchReturns(s, <<>>)
    \/ \E e \in NetErrors \cup {AbortError, BodyError} : CensusFetchThrows(e)

SpecCensus == InitCensus /\ [][NextCensus]_vars

\* C9: a census run whose index fetch did not return status 200, or threw,
\* exits with 1 and leaves data/census.json as it was; the manifest is
\* written only by a step that saw status 200, and such a run exits with 0.
C9_CensusAllOrNothing ==
    /\ [](cpc = "exited" =>
            IF cresult.kind = "result" /\ cresult.status = 200
            THEN cexit = 0 /\ censusFile.exists
            ELSE cexit = 1)
    /\ [][censusFile' # censusFile =>
            cresult'.kind = "result" /\ cresult'.status = 200]_vars
    /\ [][(cresult'.kind = "error" \/ cresult'.status # 200) =>
            censusFile' = censusFile]_vars

C9_Witness ==
    /\ cpc = "exited"
    /\ cresult.kind = "result"
    /\ cresult.status = 503
    /\ cexit = 1
    /\ censusFile.exists
    /\ Len(censusFile.laws) > 2

LawsWithNumber(laws, n) ==
    {i \in 1..Len(laws) : laws[i].category = "republic_act" /\ laws[i].raNumber = n}

FirstRowWithNumber(html, n) ==
    html[CHOOSE i \in 1..Len(html) :
            /\ html[i].raText = n
            /\ \A j \in 1..(i - 1) : html[j].raText # n]

\* C10: after a census run that fetched the index, each designation number
\* listed on the page has exactly one republic_act law in the manifest, whose
\* id, year, date, title and URL are those of the first row with that number;
\* and every republic_act law of the manifest comes from a row of the page.
C10_DedupKeepsFirst ==
    (cpc = "exited" /\ cresult.kind = "result" /\ cresult.status = 200) =>
        LET html == cresult.body
            laws == censusFile.laws
        IN  /\ \A r \in 1..Len(html) :
                LET n == html[r].raText
                    first == FirstRowWithNumber(html, n)
                    hits == LawsWithNumber(laws, n)
                IN  /\ Cardinality(hits) = 1
                    /\ \A i \in hits :
                        /\ laws[i].id = raToId(n)
                        /\ laws[i].year = first.href[3]
                        /\ laws[i].date = parseDate(first.dateStr)
                        /\ laws[i].title = first.title
                        /\ laws[i].url = IndexUrl(first.href)
            /\ \A i \in 1..Len(laws) :
                laws[i].category = "republic_act" =>
                    \E r \in 1..Len(html) : html[r].raText = laws[i].raNumber

\* the page lists number 7 twice, the 2023 row first, and the manifest holds
\* the 2023 row only
C10_Witness ==
    /\ cpc = "exited"
    /\ cresult.kind = "result"
    /\ cresult.status = 200
    /\ Len(cresult.body) >= 2
    /\ cresult.body[1].raText = 7
    /\ cresult.body[1].href[3] = 2023
    /\ cresult.body[2].raText = 7
    /\ cresult.body[2].href[3] = 2024
    /\ \E i \in 1..Len(censusFile.laws) :
            censusFile.laws[i].id = "ra-7" /\ censusFile.laws[i].year = 2023

\* C11 (final order): in the manifest written by a census run every
\* republic_act law precedes every special entry, the republic_act laws are in
\* strictly descending designation number, and the last two laws are the
\* 1987 Constitution and the Revised Penal Code.
C11_FinalOrder ==
    (cpc = "exited" /\ cexit = 0) =>
        LET laws == censusFile.laws
            n == Len(laws)
        IN  /\ n >= 2
            /\ laws[n - 1] = Constitution1987
            /\ laws[n] = RevisedPenalCode
            /\ \A i \in 1..(n - 2) : laws[i].category = "republic_act"
            /\ \A i, j \in 1..(n - 2) :
                    i < j => laws[i].raNumber > laws[j].raNumber

\* the page lists its rows in ascending number and the manifest reverses them
C11_Witness ==
    /\ cpc = "exited"
    /\ cexit = 0
    /\ Len(cresult.body) >= 2
    /\ cresult.body[1].raText = 1
    /\ cresult.body[2].raText = 7
    /\ Len(censusFile.laws) = 4
    /\ censusFile.laws[1].raNumber = 7
    /\ censusFile.laws[2].raNumber = 1

(***************************************************************************)
(* Specification of the ingestion program                                  *)
(***************************************************************************)
DataPrivacyRow == CHOOSE r \in IndexRows : r.raText = 10173

\* the files an earlier run, or an interrupted one, left for an act
DiskStates(act) ==
    { [seed |-> NoFile, source |-> NoFile],
      [seed |-> SeedOf(createFallbackSeed(act)), source |-> NoFile],
      [seed |-> SeedOf(parsePhilippineHtml(PageFull, act)),
       source |-> SourceOf(PageFull)],
      [seed |-> NoFile, source |-> SourceOf(PageFull)],
      [seed |-> NoFile, source |-> SourceOf(PageNoMarkers)] }

ActOf(id) == KEY_PHILIPPINE_ACTS[CHOOSE i \in 1..Len(KEY_PHILIPPINE_ACTS) :
                                    KEY_PHILIPPINE_ACTS[i].id = id]
FreeIds == {KEY_PHILIPPINE_ACTS[i].id : i \in 1..Min(FreeActs, Len(KEY_PHILIPPINE_ACTS))}

InitIngest ==
    /\ ParserOff
    /\ ipc = "start"
    /\ acts = <<>> /\ skipFetch = FALSE /\ idx = 0
    /\ counters = ZeroCounters /\ results = <<>> /\ writes = <<>>
    /\ fetched = <<>>
    /\ seedsBefore = <<>>
    /\ runLog = NoRuns
    /\ iexit = -1
    /\ \E disk \in [FreeIds -> UNION {DiskStates(ActOf(id)) : id \in FreeIds}] :
          /\ \A id \in FreeIds : disk[id] \in DiskStates(ActOf(id))
          /\ seedFiles = [id \in ActIds |->
                            IF id \in FreeIds THEN disk[id].seed ELSE NoFile]
          /\ sourceFiles = [id \in ActIds |->
                            IF id \in FreeIds THEN disk[id].source ELSE NoFile]
    /\ cpc = "off" /\ cresult = NoIndexResult /\ cexit = -1
    /\ censusFile = CensusOutput(<<DataPrivacyRow>>)
    /\ FetcherOff

\* beyond the first FreeActs acts every fetch returns 200 with a full page
Free == idx <= FreeActs

NextIngest ==
    \/ \E limit \in 0..FreeActs, skip \in BOOLEAN : IngestMain(limit, skip)
    \/ CacheHit
    \/ \E thrown \in {"", "EACCES"} : ParseCached(thrown)
    \/ StartFetch
    \/ \E s \in {404, 503} : Free /\ FetchReturns(s, PageNoMarkers, "")
    \/ \E body \in HtmlPages, thrownAt \in {"", "source", "seed"} :
            /\ Free \/ (body = PageFull /\ thrownAt = "")
            /\ FetchReturns(200, body, thrownAt)
    \/ \E e \in {"ECONNREFUSED"} : Free /\ FetchThrows(e)
    \/ IngestEnd

SpecIngest == InitIngest /\ [][NextIngest]_vars

\* runs of the ingestion program one after the other over the same data
\* directory, each over the first act of the list (--limit 1)
NextResume ==
    \/ \E skip \in BOOLEAN : IngestMain(1, skip)
    \/ CacheHit
    \/ \E thrown \in {"", "EACCES"} : ParseCached(thrown)
    \/ StartFetch
    \/ \E s \in {404, 503} : FetchReturns(s, PageNoMarkers, "")
    \/ \E body \in HtmlPages, thrownAt \in {"", "source", "seed"} :
            FetchReturns(200, body, thrownAt)
    \/ \E e \in {"ECONNREFUSED"} : FetchThrows(e)
    \/ IngestEnd
    \/ Rerun

SpecResume == InitIngest /\ [][NextResume]_vars

(***************************************************************************)
(* Claims about the ingestion program                                      *)
(***************************************************************************)
RecordsWithId(id) ==
    {f \in ActIds : seedFiles[f].exists /\ seedFiles[f].act.id = id}

\* C6 (coverage): after a completed run over the whole work list, every law
\* of the census manifest has exactly one record with its id.
C6_Coverage ==
    (ipc = "done" /\ Len(acts) = Len(KEY_PHILIPPINE_ACTS) /\ censusFile.exists) =>
        \A i \in 1..Len(censusFile.laws) :
            Cardinality(RecordsWithId(censusFile.laws[i].id)) = 1

FetchFailed(status) ==
    status \in {"HTTP 404 (fallback)", "HTTP 503 (fallback)",
                "FETCH FAILED (fallback)"}

IsFallback(status) == status \notin {"cached", "OK"}
Fallbacks == {k \in 1..Len(results) : IsFallback(results[k].status)}

\* C8: a failure of one act is not fatal. The step that records the failure
\* of act idx counts it once in failed and in processed and moves the loop to
\* the next act without ending the process; the process never exits with a
\* non-zero code, never stops before the end of the work list, and ends with
\* every act of the work list processed in order and failed equal to the
\* number of failures.
C8_FailureNotFatal ==
    /\ [][(Len(results') = Len(results) + 1
            /\ IsFallback(results'[Len(results')].status)) =>
                /\ Len(results') = idx
                /\ results'[idx].act = acts[idx].shortName
                /\ counters'.failed = counters.failed + 1
                /\ counters'.processed = counters.processed + 1
                /\ idx' = idx + 1
                /\ ipc' = "loop"
                /\ iexit' = -1]_vars
    /\ [](iexit \in {-1, 0})
    /\ [](ipc # "done" => ENABLED NextIngest)
    /\ [](ipc = "done" =>
            /\ iexit = 0
            /\ counters.processed = Len(acts)
            /\ Len(results) = Len(acts)
            /\ \A k \in 1..Len(acts) : results[k].act = acts[k].shortName
            /\ counters.failed = Cardinality(Fallbacks))

C8_Witness ==
    /\ ipc = "done"
    /\ iexit = 0
    /\ Len(acts) = Len(KEY_PHILIPPINE_ACTS)
    /\ results[1].status = "HTTP 404 (fallback)"
    /\ results[2].status = "OK"
    /\ results[Len(acts)].status = "OK"
    /\ counters.failed = 1
    /\ counters.processed = Len(acts)

\* A step of the loop that hands a page to the parser, and the page: the
\* cached page when the act is not fetched (census.ts:394-398), the body just
\* stored when a fetch returned 200 (census.ts:421-422). A step that ends in
\* an I/O exception (EACCES) is not one in which the parser ran to its end.
HandsToParser ==
    /\ Len(results') = Len(results) + 1
    /\ results'[Len(results')].status \notin
            {"cached", "FETCH FAILED (fallback)", "HTTP 404 (fallback)",
             "HTTP 503 (fallback)", ErrorStatus("EACCES")}
HandedPage == sourceFiles'[acts[idx].id].html

\* C14: a step in which the parser is given a page without section markers
\* writes the record of the act with no provisions, no definitions and the
\* act's metadata, reports the act with status OK and 0 provisions and
\* definitions, and does not count a failure.
C14_NoMarkersIsParsed ==
    [][(HandsToParser /\ HandedPage.sections = <<>>) =>
            /\ results'[idx] = [act |-> acts[idx].shortName, provisions |-> 0,
                                definitions |-> 0, status |-> "OK"]
            /\ seedFiles'[acts[idx].id].exists
            /\ seedFiles'[acts[idx].id].act = ActRecord(acts[idx], <<>>, <<>>)
            /\ counters'.failed = counters.failed
            /\ counters'.processed = counters.processed + 1]_vars

\* in skip-fetch mode two acts without records were parsed from pages
\* without markers, cached or fetched with status 200; both are reported OK
C14_Witness ==
    /\ ipc = "done"
    /\ skipFetch
    /\ Len(acts) = 2
    /\ Len(results) = 2
    /\ writes = <<acts[1].id, acts[2].id>>
    /\ \A k \in 1..2 :
        /\ sourceFiles[acts[k].id].exists
        /\ sourceFiles[acts[k].id].html = PageNoMarkers
        /\ results[k].status = "OK"
        /\ results[k].provisions = 0
        /\ seedFiles[acts[k].id].act.provisions = <<>>
    /\ counters.failed = 0
\* C15: when the fetch of an act fails and a cached page of the act exists,
\* the seed written for the act holds the provisions parsed from the cached
\* page.
C15_CachedProvisionsOnFailure ==
    \A k \in 1..Len(results) :
        (/\ results[k].status \in {"HTTP 503 (fallback)", "FETCH FAILED (fallback)"}
         /\ sourceFiles[acts[k].id].exists) =>
            seedFiles[acts[k].id].act.provisions =
                parsePhilippineHtml(sourceFiles[acts[k].id].html, acts[k]).provisions
OtherFilesKept(id) ==
    /\ \A f \in ActIds \ {id} : seedFiles'[f] = seedFiles[f]
    /\ \A f \in ActIds \ {id} : sourceFiles'[f] = sourceFiles[f]

\* C18 as stated: during a run the only file written for an act is its
\* record, a parsed or a fallback record, at most once per act.
C18_OnlyTerminalRecordWritten ==
    /\ [][sourceFiles' = sourceFiles]_vars
    /\ [][seedFiles' # seedFiles =>
            /\ Len(writes') = Len(writes) + 1
            /\ OtherFilesKept(acts[idx].id)]_vars
    /\ [](Cardinality({writes[i] : i \in 1..Len(writes)}) = Len(writes))

\* C18 as the code has it: the record of an act is written at most once per
\* run, by the step that ends the act's iteration, and it is the whole parsed
\* record of the page handed to the parser or the fallback record, as the
\* reported status says; no file of another act is touched. Besides the
\* record, the step that fetched a page with status 200 stores the page in
\* data/source before it is parsed.
C18_RecordWrittenOnceAndWhole ==
    /\ [][seedFiles' # seedFiles =>
            /\ Len(writes') = Len(writes) + 1
            /\ writes'[Len(writes')] = acts[idx].id
            /\ Len(results') = Len(results) + 1
            /\ idx' = idx + 1
            /\ OtherFilesKept(acts[idx].id)]_vars
    /\ [][Len(writes') = Len(writes) + 1 =>
            LET act == acts[idx]
                seed == seedFiles'[act.id]
            IN  /\ seed.exists
                /\ IF results'[idx].status = "OK"
                   THEN /\ sourceFiles'[act.id].exists
                        /\ seed.act = parsePhilippineHtml(HandedPage, act)
                   ELSE seed.act = ActRecord(act, <<>>, <<>>)]_vars
    /\ [][sourceFiles' # sourceFiles =>
            /\ ipc = "fetching"
            /\ sourceFiles'[acts[idx].id].exists
            /\ Len(writes') = Len(writes) + 1
            /\ OtherFilesKept(acts[idx].id)]_vars
    /\ [](Cardinality({writes[i] : i \in 1..Len(writes)}) = Len(writes))
    /\ [](Len(writes) <= Len(results))

\* a run without --skip-fetch fetched the page of act 1, stored it and wrote
\* the parsed record with its definition
C18_Witness ==
    /\ ipc = "done"
    /\ ~skipFetch
    /\ Len(acts) >= 1
    /\ writes[1] = acts[1].id
    /\ results[1].status = "OK"
    /\ sourceFiles[acts[1].id] = SourceOf(PageFull)
    /\ seedFiles[acts[1].id].act = parsePhilippineHtml(PageFull, acts[1])
    /\ Len(seedFiles[acts[1].id].act.definitions) = 1
InRun == ipc \in {"loop", "fetching", "done"}
IdsOf(list, n) == [k \in 1..n |-> list[k].id]

\* C19 (full mode): without --skip-fetch the acts handed to the fetcher are
\* the acts of the work list handled so far, each once and in order, whatever
\* files exist for them; no act is reported as cached, and at the end of the
\* run every act of the work list has been fetched exactly once.
C19_FullModeFetchesAll ==
    (InRun /\ ~skipFetch) =>
        /\ Len(fetched) = Len(results) + (IF ipc = "fetching" THEN 1 ELSE 0)
        /\ Len(fetched) <= Len(acts)
        /\ fetched = IdsOf(acts, Len(fetched))
        /\ \A k \in 1..Len(results) : results[k].status # "cached"
        /\ counters.skipped = 0
        /\ ipc = "done" => Len(fetched) = Len(acts)

\* act 1 has a record and a cached page from an earlier run and is being
\* fetched all the same
C19_Witness ==
    /\ ipc = "fetching"
    /\ ~skipFetch
    /\ idx = 1
    /\ seedFiles[acts[1].id].exists
    /\ Len(seedFiles[acts[1].id].act.provisions) > 0
    /\ sourceFiles[acts[1].id].exists
    /\ fetched = <<acts[1].id>>
InFetched(id) == \E i \in 1..Len(fetched) : fetched[i] = id

\* C20 (skip-fetch mode): with --skip-fetch, the step that ends the iteration
\* of an act whose record exists reports it as cached, counts it as skipped
\* and changes no file; the step for an act with a cached page and no record
\* writes what the parser makes of the cached page; neither act is ever
\* handed to the fetcher; and an act is handed to the fetcher only when it
\* has neither a record nor a cached page.
C20_SkipFetchUsesLocalState ==
    /\ [][(skipFetch /\ Len(results') = Len(results) + 1) =>
            LET id == acts[idx].id
            IN  IF seedFiles[id].exists
                THEN /\ results'[idx].status = "cached"
                     /\ results'[idx].provisions = Len(seedFiles[id].act.provisions)
                     /\ counters'.skipped = counters.skipped + 1
                     /\ seedFiles' = seedFiles
                     /\ sourceFiles' = sourceFiles
                     /\ writes' = writes
                     /\ ~InFetched(id)
                ELSE IF ipc = "loop"
                THEN /\ sourceFiles[id].exists
                     /\ sourceFiles' = sourceFiles
                     /\ ~InFetched(id)
                     /\ results'[idx].status = "OK" =>
                            seedFiles'[id].act =
                                parsePhilippineHtml(sourceFiles[id].html, acts[idx])
                ELSE /\ ipc = "fetching"
                     /\ ~sourceFiles[id].exists
                     /\ fetched[Len(fetched)] = id]_vars
    /\ [][(skipFetch /\ fetched' # fetched) =>
            /\ fetched' = Append(fetched, acts[idx].id)
            /\ ~InFetched(acts[idx].id)
            /\ ~seedFiles[acts[idx].id].exists
            /\ ~sourceFiles[acts[idx].id].exists]_vars

\* a skip-fetch run over two acts: the first had a record and was reused,
\* the second had a cached page only and was parsed from it; no act was
\* handed to the fetcher
C20_Witness ==
    /\ ipc = "done"
    /\ skipFetch
    /\ Len(acts) >= 2
    /\ results[1].status = "cached"
    /\ results[1].provisions > 0
    /\ results[2].status = "OK"
    /\ results[2].provisions > 0
    /\ writes = <<acts[2].id>>
    /\ fetched = <<>>
\* C21 (sequential processing): during a run the results recorded so far are
\* those of the first acts of the work list, in order; the loop is at the
\* act after them; at most one act has been handed to the fetcher without a
\* result, and it is that act; every act fetched or written is the current
\* one or an earlier one, and a step fetches, writes or records only for the
\* current act.
C21_Sequential ==
    /\ [](ipc \in {"loop", "fetching"} =>
            /\ Len(results) = idx - 1
            /\ \A k \in 1..Len(results) : results[k].act = acts[k].shortName
            /\ \A i \in 1..Len(fetched) :
                    \E k \in 1..Min(idx, Len(acts)) : fetched[i] = acts[k].id
            /\ \A i \in 1..Len(writes) :
                    \E k \in 1..Len(results) : writes[i] = acts[k].id
            /\ Cardinality({i \in 1..Len(fetched) :
                    \A k \in 1..Len(results) : fetched[i] # acts[k].id})
                  = (IF ipc = "fetching" THEN 1 ELSE 0)
            /\ ipc = "fetching" => fetched[Len(fetched)] = acts[idx].id)
    /\ [][(fetched' # fetched /\ ipc # "start") =>
            fetched' = Append(fetched, acts[idx].id) /\ Len(results) = idx - 1]_vars
    /\ [][(results' # results /\ ipc # "start") =>
            /\ Len(results') = idx
            /\ results'[idx].act = acts[idx].shortName
            /\ idx' = idx + 1
            /\ OtherFilesKept(acts[idx].id)]_vars

\* act 2 is being fetched after act 1 was fetched, written and recorded
C21_Witness ==
    /\ ipc = "fetching"
    /\ idx = 2
    /\ Len(results) = 1
    /\ fetched = <<acts[1].id, acts[2].id>>
    /\ writes = <<acts[1].id>>

Populated(seed) == seed.exists /\ seed.act.provisions # <<>>

InWrites(id) == \E i \in 1..Len(writes) : writes[i] = id
EmptyRecord(seed) == seed.exists /\ seed.act.provisions = <<>>
AllSkipFetch == runLog.modes # <<>> /\ \A i \in 1..Len(runLog.modes) : runLog.modes[i]

\* C29 (a fallback record is a permanent cache hit under resume): while every
\* run made so far had --skip-fetch, an act whose record had no provisions
\* before the first of them keeps that very record, is not handed to the
\* fetcher, and has no record written by the parser or the fallback path,
\* whatever the source would answer; and a step that changes a record without
\* provisions belongs to a run without --skip-fetch.
C29_FallbackIsPermanentCacheHit ==
    /\ [](AllSkipFetch =>
            \A id \in ActIds :
                EmptyRecord(runLog.first[id]) =>
                    /\ seedFiles[id] = runLog.first[id]
                    /\ ~InFetched(id)
                    /\ ~InWrites(id))
    /\ [][\A id \in ActIds :
            (EmptyRecord(seedFiles[id]) /\ seedFiles'[id] # seedFiles[id])
                => ~skipFetch']_vars

\* the second of two runs with --skip-fetch has reported the fallback record
\* of its act as cached, as the first did, and the record is unchanged
C29_Witness ==
    /\ runLog.modes = <<TRUE, TRUE>>
    /\ ipc = "done"
    /\ Len(results) = 1
    /\ results[1].status = "cached"
    /\ results[1].provisions = 0
    /\ runLog.first[acts[1].id] = SeedOf(createFallbackSeed(acts[1]))
    /\ seedFiles[acts[1].id] = runLog.first[acts[1].id]

WithStatus(S) == {k \in 1..Len(results) : results[k].status \in S}
RECURSIVE SumProvisions(_)
SumProvisions(rs) ==
    IF rs = <<>> THEN 0 ELSE Head(rs).provisions + SumProvisions(Tail(rs))
RECURSIVE SumDefinitions(_)
SumDefinitions(rs) ==
    IF rs = <<>> THEN 0 ELSE Head(rs).definitions + SumDefinitions(Tail(rs))

\* C30 (run-counter consistency): between iterations of the loop, processed
\* is the number of acts handled so far and the number of result entries;
\* skipped is the number of entries reported cached, failed the number of
\* fallback entries, and together with the fully parsed entries they make up
\* processed; totalProvisions and totalDefinitions are the sums of the
\* counts of the entries; at the end of the run processed is the length of
\* the work list.
C30_CounterConsistency ==
    InRun =>
        /\ counters.processed = Len(results)
        /\ counters.processed = idx - 1
        /\ counters.skipped = Cardinality(WithStatus({"cached"}))
        /\ counters.failed = Cardinality(Fallbacks)
        /\ counters.skipped + counters.failed + Cardinality(WithStatus({"OK"}))
                = counters.processed
        /\ counters.totalProvisions = SumProvisions(results)
        /\ counters.totalDefinitions = SumDefinitions(results)
        /\ ipc = "done" => counters.processed = Len(acts)

\* a finished run over two acts: one reused from its record with provisions,
\* one failed with a fallback
C30_Witness ==
    /\ ipc = "done"
    /\ Len(acts) = 2
    /\ counters.processed = 2
    /\ counters.skipped = 1
    /\ counters.failed = 1
    /\ counters.totalProvisions > 0
    /\ counters.totalDefinitions > 0
(***************************************************************************)
(* Specification of the parser: calls of parsePhilippineHtml               *)
(***************************************************************************)
MaxSections == 2      \* section markers on a page

DefPersonal == [term |-> "Personal information", termLen |-> 20, definitionLen |-> 40]
DefPersonalUpper == [term |-> "PERSONAL INFORMATION", termLen |-> 20, definitionLen |-> 80]
DefSubject == [term |-> "Data subject", termLen |-> 12, definitionLen |-> 30]

\* What a section marker and the text up to the next marker look like:
\* a definition section numbered 3A whose text defines one term twice in
\* different case; a section numbered 3a (the same reference key) with
\* shorter text; a section whose stripped text is too short to be kept;
\* a section whose title does not announce definitions. The matches of the
\* definition pattern are pieces of the stripped text of their section
\* (fetcher.ts:277, 299), so the text is longer than its matches together.
SectionShapes ==
    { [sectionNum |-> "3A", title |-> "Definition of Terms", contentLen |-> 300,
       defs |-> <<DefPersonal, DefPersonalUpper, DefSubject>>],
      [sectionNum |-> "3a", title |-> "Definitions", contentLen |-> 90,
       defs |-> <<DefPersonal>>],
      [sectionNum |-> "1", title |-> "Scope", contentLen |-> 5, defs |-> <<>>],
      [sectionNum |-> "1", title |-> "Short Title", contentLen |-> 60,
       defs |-> <<DefSubject>>] }

\* the k-th marker of a page is found at offset 40 * k
Located(shapes) ==
    [k \in 1..Len(shapes) |->
        [index |-> 40 * k, sectionNum |-> shapes[k].sectionNum,
         title |-> shapes[k].title, contentLen |-> shapes[k].contentLen,
         defs |-> shapes[k].defs]]

\* chapter headings: none; one before the first marker and one between the
\* first and the second marker; only one after the first marker
ChapterLists ==
    { <<>>,
      << [index |-> 10, name |-> "CHAPTER I - GENERAL PROVISIONS"],
         [index |-> 60, name |-> "CHAPTER II"] >>,
      << [index |-> 60, name |-> "CHAPTER II"] >> }

\* Sections at the length thresholds of the parser: a section with no
\* definition whose stripped text is around 10 and around 12000 characters,
\* and a definition section with one match whose term is around 100 and
\* whose definition is around 5 and around 4000 characters.
BoundaryShapes ==
    {[sectionNum |-> "2", title |-> "Scope", contentLen |-> n, defs |-> <<>>] :
        n \in {9, 10, 11, 12000, 12001}}
    \cup
    {[sectionNum |-> "2", title |-> "Definitions", contentLen |-> 5000,
      defs |-> <<[term |-> "Data subject", termLen |-> t, definitionLen |-> d]>>] :
        t \in {99, 100, 101}, d \in {4, 5, 6, 4000, 4001}}

\* Two sections with the same number, each longer than the cap on the
\* stored text, the second longer than the first.
OverlongPair ==
    << [sectionNum |-> "2", title |-> "Scope", contentLen |-> 12001, defs |-> <<>>],
       [sectionNum |-> "2", title |-> "Coverage", contentLen |-> 13000,
        defs |-> <<>>] >>

ParsePages ==
    {[sections |-> Located(shapes), chapters |-> chs] :
        shapes \in SeqsUpTo(SectionShapes, MaxSections), chs \in ChapterLists}
    \cup {[sections |-> Located(<<shape>>), chapters |-> <<>>] :
                shape \in BoundaryShapes}
    \cup {[sections |-> Located(OverlongPair), chapters |-> <<>>]}

ParseActs == {KEY_PHILIPPINE_ACTS[1], KEY_PHILIPPINE_ACTS[2]}

ParseCall(html, act) ==
    [html |-> html, act |-> act, out |-> parsePhilippineHtml(html, act)]

\* one of the first two calls, on any page and act
Parse(html, act) ==
    /\ pcount < 2
    /\ pcount' = pcount + 1
    /\ plast' = ParseCall(html, act)
    /\ pref' = IF pcount = 0 THEN ParseCall(html, act) ELSE pref
    /\ plocals' = ScannedLocals(html)
    /\ UNCHANGED <<fvars, cvars, ivars>>

\* a later call with the arguments of the first call
ParseAgain ==
    /\ pcount \in {1, 2}
    /\ pcount' = 3
    /\ plast' = ParseCall(pref.html, pref.act)
    /\ plocals' = ScannedLocals(pref.html)
    /\ UNCHANGED <<pref, fvars, cvars, ivars>>

InitParse ==
    /\ ParserOff
    /\ FetcherOff
    /\ CensusOff
    /\ IngestOff

NextParse ==
    \/ \E html \in ParsePages, act \in ParseActs : Parse(html, act)
    \/ ParseAgain

SpecParse == InitParse /\ [][NextParse]_vars

Refs(rec) == {rec.provisions[i].provision_ref : i \in 1..Len(rec.provisions)}
Terms(rec) == {ToLowerCase(rec.definitions[i].term) : i \in 1..Len(rec.definitions)}

\* C12 (uniqueness): in the record returned by parsePhilippineHtml no two
\* provisions have the same provision_ref and no two definitions have terms
\* that are equal when compared case-insensitively.
C12_Uniqueness ==
    pcount >= 1 =>
        /\ Cardinality(Refs(plast.out)) = Len(plast.out.provisions)
        /\ Cardinality(Terms(plast.out)) = Len(plast.out.definitions)

\* the page has the markers 3A and 3a and defines "Personal information"
\* three times in two spellings; the record has one provision and two terms
C12_Witness ==
    /\ pcount >= 1
    /\ Len(plast.html.sections) = 2
    /\ plast.html.sections[1].sectionNum = "3A"
    /\ plast.html.sections[2].sectionNum = "3a"
    /\ Len(plast.out.provisions) = 1
    /\ Len(plast.out.definitions) = 2

LatestHeading(chapters, offset) ==
    LET at == {j \in 1..Len(chapters) : chapters[j].index <= offset}
    IN  IF at = {} THEN ""
        ELSE chapters[CHOOSE j \in at :
                        \A j2 \in at : chapters[j2].index <= chapters[j].index].name

\* the markers of the page a provision of the record can come from
MarkersOf(html, prov) ==
    {k \in 1..Len(html.sections) :
        /\ "sec" \o ToLowerCase(html.sections[k].sectionNum) = prov.provision_ref
        /\ html.sections[k].sectionNum = prov.section
        /\ html.sections[k].title = prov.title
        /\ Min(html.sections[k].contentLen, 12000) = prov.contentLen}

\* C22 (chapter attribution): every provision of a parsed record comes from
\* a marker of the page and carries the label of the latest chapter heading
\* at or before that marker; it carries no chapter exactly when no heading
\* is at or before the marker.
C22_ChapterAttribution ==
    pcount >= 1 =>
        \A i \in 1..Len(plast.out.provisions) :
            LET prov == plast.out.provisions[i]
            IN  \E k \in MarkersOf(plast.html, prov) :
                    LET offset == plast.html.sections[k].index
                    IN  /\ prov.chapter = LatestHeading(plast.html.chapters, offset)
                        /\ prov.chapter = "" <=>
                              \A j \in 1..Len(plast.html.chapters) :
                                    plast.html.chapters[j].index > offset

\* pages whose headings lie around the markers: the heading after the first
\* marker labels the second provision only
C22_Witness ==
    /\ pcount >= 1
    /\ Len(plast.html.chapters) = 1
    /\ plast.html.chapters[1].index = 60
    /\ Len(plast.out.provisions) = 2
    /\ plast.out.provisions[1].chapter = ""
    /\ plast.out.provisions[2].chapter = "CHAPTER II"

\* the markers whose text is long enough to be a candidate provision with
\* the reference key ref, and the length of the text a candidate stores
CandidatesOf(html, ref) ==
    {k \in 1..Len(html.sections) :
        /\ "sec" \o ToLowerCase(html.sections[k].sectionNum) = ref
        /\ html.sections[k].contentLen > 10}
StoredLen(html, k) == Min(html.sections[k].contentLen, 12000)

\* the definition matches accepted by extractDefinitions, as <<marker, match>>
AcceptedDefs(html) ==
    {km \in UNION {{<<k, j>> : j \in 1..Len(html.sections[k].defs)} :
                        k \in 1..Len(html.sections)} :
        /\ IsDefinitionTitle(html.sections[km[1]].title)
        /\ LET m == html.sections[km[1]].defs[km[2]]
           IN  m.termLen > 0 /\ m.termLen < 100 /\ m.definitionLen > 5}
DefAt(html, km) == html.sections[km[1]].defs[km[2]]
Before(km1, km2) ==
    km1[1] < km2[1] \/ (km1[1] = km2[1] /\ km1[2] < km2[2])

\* C23 (deduplication keeps the longer): the provision of the record with a
\* given reference key is the candidate with that key whose stored text is
\* longest, the earliest of them when several are equally long; the
\* definition of the record for a term is the accepted match of that term
\* (case-insensitively) whose stored definition is longest, the earliest of
\* them when several are equally long.
C23_DedupKeepsLonger ==
    pcount >= 1 =>
        LET html == plast.html
        IN  /\ \A i \in 1..Len(plast.out.provisions) :
                LET prov == plast.out.provisions[i]
                    cands == CandidatesOf(html, prov.provision_ref)
                IN  \E k \in cands :
                        /\ \A k2 \in cands : StoredLen(html, k2) <= StoredLen(html, k)
                        /\ \A k2 \in cands :
                                StoredLen(html, k2) = StoredLen(html, k) => k <= k2
                        /\ prov.contentLen = StoredLen(html, k)
                        /\ prov.section = html.sections[k].sectionNum
                        /\ prov.title = html.sections[k].title
            /\ \A i \in 1..Len(plast.out.definitions) :
                LET def == plast.out.definitions[i]
                    cands == {km \in AcceptedDefs(html) :
                                ToLowerCase(DefAt(html, km).term) =
                                    ToLowerCase(def.term)}
                    len(km) == Min(DefAt(html, km).definitionLen, 4000)
                IN  \E km \in cands :
                        /\ \A km2 \in cands : len(km2) <= len(km)
                        /\ \A km2 \in cands :
                                (len(km2) = len(km) /\ km2 # km) => Before(km, km2)
                        /\ def.term = DefAt(html, km).term
                        /\ def.definitionLen = len(km)
                        /\ def.source_provision =
                              "sec" \o ToLowerCase(html.sections[km[1]].sectionNum)

\* marker 3a with 90 characters comes before marker 3A with 300: the record
\* has the later, longer one; of "Personal information" (40) and "PERSONAL
\* INFORMATION" (80) it has the later, longer definition
C23_Witness ==
    /\ pcount >= 1
    /\ Len(plast.html.sections) = 2
    /\ plast.html.sections[1].sectionNum = "3a"
    /\ plast.html.sections[2].sectionNum = "3A"
    /\ Len(plast.out.provisions) = 1
    /\ plast.out.provisions[1].section = "3A"
    /\ plast.out.provisions[1].contentLen = 300
    /\ \E i \in 1..Len(plast.out.definitions) :
            /\ plast.out.definitions[i].term = "PERSONAL INFORMATION"
            /\ plast.out.definitions[i].definitionLen = 80

HasProvision(rec, ref) ==
    \E i \in 1..Len(rec.provisions) : rec.provisions[i].provision_ref = ref
HasDefinition(rec, term) ==
    \E i \in 1..Len(rec.definitions) :
        ToLowerCase(rec.definitions[i].term) = ToLowerCase(term)

\* C24 (short-body threshold): a section whose stripped text has fewer than
\* 10 characters gives no provision, a section whose stripped text has 10 or
\* more characters gives the record a provision with its reference key, and
\* no provision of the record is longer than 12000 characters.
C24_ShortBodyThreshold ==
    pcount >= 1 =>
        /\ \A k \in 1..Len(plast.html.sections) :
            LET sec == plast.html.sections[k]
                ref == "sec" \o ToLowerCase(sec.sectionNum)
            IN  /\ sec.contentLen >= 10 => HasProvision(plast.out, ref)
                /\ (\A k2 \in 1..Len(plast.html.sections) :
                        ("sec" \o ToLowerCase(plast.html.sections[k2].sectionNum) = ref)
                            => plast.html.sections[k2].contentLen < 10)
                    => ~HasProvision(plast.out, ref)
        /\ \A i \in 1..Len(plast.out.provisions) :
                plast.out.provisions[i].contentLen <= 12000

\* C25 (definition bounds): a match in a definition section is rejected
\* exactly when its term is longer than 100 characters or its definition is
\* shorter than 5 characters; the term of every other match is in the
\* record, and no definition of the record is longer than 4000 characters.
C25_DefinitionBounds ==
    pcount >= 1 =>
        /\ \A k \in 1..Len(plast.html.sections) :
            IsDefinitionTitle(plast.html.sections[k].title) =>
                \A j \in 1..Len(plast.html.sections[k].defs) :
                    LET m == plast.html.sections[k].defs[j]
                        rejected == m.termLen > 100 \/ m.definitionLen < 5
                    IN  /\ ~rejected => HasDefinition(plast.out, m.term)
                        /\ (rejected /\ Len(plast.html.sections) = 1
                                /\ Len(plast.html.sections[k].defs) = 1)
                              => plast.out.definitions = <<>>
        /\ \A i \in 1..Len(plast.out.definitions) :
                plast.out.definitions[i].definitionLen <= 4000

\* C27 (referential integrity of definitions): in the record returned by
\* parsePhilippineHtml the source_provision of every definition is the
\* provision_ref of a provision of the same record.
C27_DefinitionSourceExists ==
    pcount >= 1 =>
        \A i \in 1..Len(plast.out.definitions) :
            HasProvision(plast.out, plast.out.definitions[i].source_provision)

\* the page has a marker whose text was discarded as too short and a
\* definition section; the record has the definition and its one provision
C27_Witness ==
    /\ pcount >= 1
    /\ Len(plast.html.sections) = 2
    /\ plast.html.sections[1].contentLen = 5
    /\ plast.html.sections[2].sectionNum = "3a"
    /\ Len(plast.out.provisions) = 1
    /\ Len(plast.out.definitions) = 1
    /\ plast.out.definitions[1].source_provision = "sec3a"
    /\ plast.out.provisions[1].provision_ref = "sec3a"

====
